---- MODULE Spec2Model ----
(***************************************************************************)
(* Model of ui/src/tracks/heap_profile_flamegraph/controller.ts:           *)
(*   - mergeCallsites and its helpers, as a walk over an input array;      *)
(*   - HeapProfileFlameraphTrackController: run(), getFlamegraphData(),    *)
(*     the fetch in flight and the TrackData publications.                 *)
(***************************************************************************)
EXTENDS Integers, Sequences, FiniteSets, TLC

(***************************************************************************)
(* Bounds of the model.                                                    *)
(***************************************************************************)
\* longest input array handed to mergeCallsites
MaxLen == 4
\* totalSize of an input record ranges over 1..MaxSize
MaxSize == 3
\* minSizeDisplayed ranges over 0..MaxMinSize
MaxMinSize == 2
\* selection ids, process ids and timestamps range over 1..MaxId, 1..MaxUpid, 1..MaxTs
MaxId == 2
MaxUpid == 1
MaxTs == 2
\* selection objects alive at one time
MaxObjects == 3
\* run() calls in one behaviour
MaxRuns == 3
\* onBoundsChange is called with the windows <<s, s + 1, 1>>, s in 1..MaxTime
MaxTime == 1
\* the visible width in pixels ranges over 1..MaxWidth
MaxWidth == 2
\* longest array of the step-by-step walk, whose records are in any order
MaxWalkLen == 3
\* depth of a record of such an array ranges over 0..MaxDepth
MaxDepth == 1

(***************************************************************************)
(* Program constants.                                                      *)
(***************************************************************************)
MIN_PIXEL_DISPLAYED == 1
\* parent_hash of a callsite of depth 0 (the SQL of getFlamegraphDataFromTables)
RootParentHash == -1

(***************************************************************************)
(* CallsiteInfo records and the inputs of mergeCallsites.                  *)
(***************************************************************************)
\* The code compares hashes for equality only, so the k-th record of an input
\* carries hash k.  Names are labels that are not unique.
NameOf(hash) == IF hash % 2 = 1 THEN "f" ELSE "g"

CallsiteInfo(hash, parentHash, depth, totalSize) ==
  [hash |-> hash, parentHash |-> parentHash, depth |-> depth,
   name |-> NameOf(hash), totalSize |-> totalSize]

\* value of copiedCallsite before the first record is copied
NoCallsite == CallsiteInfo(0, 0, 0, 0)

HashesAtDepth(d, depth) == {d[k].hash : k \in {x \in 1..Len(d) : d[x].depth = depth}}

\* The records that may follow the array d: depth runs are contiguous and
\* ascending, a record of depth 0 has parent RootParentHash, any other record
\* has a parent one level up, the hash is new.
NextRecords(d) ==
  LET hash == Len(d) + 1
      last == IF Len(d) = 0 THEN 0 ELSE d[Len(d)].depth
      roots == IF last = 0
                 THEN {CallsiteInfo(hash, RootParentHash, 0, s) : s \in 1..MaxSize}
                 ELSE {}
      inner == IF Len(d) = 0 THEN {}
               ELSE UNION { UNION { {CallsiteInfo(hash, p, dep, s) : s \in 1..MaxSize}
                                     : p \in HashesAtDepth(d, dep - 1) }
                            : dep \in {x \in {last, last + 1} : x >= 1} }
  IN roots \cup inner

RECURSIVE ValidInputs(_)
ValidInputs(n) ==
  IF n = 0 THEN {<< >>}
  ELSE LET shorter == ValidInputs(n - 1)
       IN shorter \cup
          UNION { {Append(d, r) : r \in NextRecords(d)}
                  : d \in {x \in shorter : Len(x) = n - 1} }

\* a parentHash that is the hash of no record of the array
DanglingHash == MaxWalkLen + 1

\* Arrays of up to n records in any order: the hashes are unique, a parentHash
\* is RootParentHash, the hash of some record of a full array, or dangling.
RECURSIVE AnyInputs(_)
AnyInputs(n) ==
  IF n = 0 THEN {<< >>}
  ELSE LET shorter == AnyInputs(n - 1)
       IN shorter \cup
          { Append(d, CallsiteInfo(n, p, dep, s)) :
              d \in {x \in shorter : Len(x) = n - 1},
              p \in ({RootParentHash, DanglingHash} \cup (1..MaxWalkLen)),
              dep \in 0..MaxDepth,
              s \in 1..MaxSize }

(***************************************************************************)
(* mergeCallsites.                                                         *)
(***************************************************************************)
\* the object copiedCallsite refers to is no element of data
Detached == 0

\* copyCallsite as `return callsite`: the copy is the element of data itself
CopiedObjectSame(index) == index + 1

\* lines 72-78: the object literal is a new object, whatever the 0-based index
\* of the record it copies
CopiedObject(index) == Detached

\* the loop test of line 55 with its operands swapped: the depth of data[j]
\* is read before j is compared with data.length
ScanReadsUnguarded(data, w) == {w.j}

\* lines 55-58: the indices j whose fields (depth, parentHash, totalSize,
\* hash) one evaluation of the loop test and body reads; after j < data.length
\* fails, && does not evaluate nextCallsite.depth
ScanReads(data, w) == IF w.j < Len(data) THEN {w.j} ELSE {}

\* copyCallsite that puts the copy one level down
copyCallsiteDeeper(callsite) ==
  [hash |-> callsite.hash,
   parentHash |-> callsite.parentHash,
   depth |-> callsite.depth + 1,
   name |-> callsite.name,
   totalSize |-> callsite.totalSize]

copyCallsite(callsite) ==
  [hash |-> callsite.hash,
   parentHash |-> callsite.parentHash,
   depth |-> callsite.depth,
   name |-> callsite.name,
   totalSize |-> callsite.totalSize]

\* Map.has, Map.set on a Map<number, number>
MapHas(map, key) == key \in DOMAIN map
MapSet(map, key, value) ==
  [k \in (DOMAIN map) \cup {key} |-> IF k = key THEN value ELSE map[k]]
EmptyMap == [k \in {} |-> 0]

\* getCallsitesParentHash that does not look the parent up in the map
getCallsitesParentHashLiteral(callsite, map) == callsite.parentHash

getCallsitesParentHash(callsite, map) ==
  IF MapHas(map, callsite.parentHash) THEN map[callsite.parentHash]
                                      ELSE callsite.parentHash

\* the skip of line 43 left out
AlreadyMergedNever(callsite, map) == FALSE

\* line 43: the record was folded into an earlier one
AlreadyMerged(callsite, map) == MapHas(map, callsite.hash)

\* candidate test with < for <=
IsMergeCandidateStrict(copiedCallsite, nextCallsite, map, minSizeDisplayed) ==
  /\ copiedCallsite.parentHash = getCallsitesParentHash(nextCallsite, map)
  /\ nextCallsite.totalSize < minSizeDisplayed

\* candidate test without the parent comparison
IsMergeCandidateAnyParent(copiedCallsite, nextCallsite, map, minSizeDisplayed) ==
  nextCallsite.totalSize <= minSizeDisplayed

\* candidate test on the candidate's literal parentHash
IsMergeCandidateLiteralParent(copiedCallsite, nextCallsite, map, minSizeDisplayed) ==
  /\ copiedCallsite.parentHash = nextCallsite.parentHash
  /\ nextCallsite.totalSize <= minSizeDisplayed

\* lines 56-58: the candidate is a small sibling of the copied callsite
IsMergeCandidate(copiedCallsite, nextCallsite, map, minSizeDisplayed) ==
  /\ copiedCallsite.parentHash = getCallsitesParentHash(nextCallsite, map)
  /\ nextCallsite.totalSize <= minSizeDisplayed

\* the merged callsite gets the size of the biggest merged callsite
AddSizeBiggest(copiedCallsite, nextCallsite) ==
  [copiedCallsite EXCEPT !.totalSize =
     IF nextCallsite.totalSize > copiedCallsite.totalSize
       THEN nextCallsite.totalSize ELSE copiedCallsite.totalSize]

\* line 59
AddSize(copiedCallsite, nextCallsite) ==
  [copiedCallsite EXCEPT !.totalSize = copiedCallsite.totalSize + nextCallsite.totalSize]

\* mergedData.unshift for mergedData.push
PushFront(mergedData, copiedCallsite) == <<copiedCallsite>> \o mergedData

\* line 66
Push(mergedData, copiedCallsite) == Append(mergedData, copiedCallsite)

\* The walk of mergeCallsites: w.i and w.j are the 0-based indices of the code,
\* data[k + 1] is the code's data[k].
WalkInit ==
  [pc |-> "for", i |-> 0, j |-> 0, copiedCallsite |-> NoCallsite,
   mergedData |-> << >>, mergedCallsites |-> EmptyMap]

\* lines 39-53 and, when the record is not small, line 66
ForStep(data, minSizeDisplayed, w) ==
  IF ~(w.i < Len(data)) THEN [w EXCEPT !.pc = "return"]
  ELSE IF AlreadyMerged(data[w.i + 1], w.mergedCallsites)
    THEN [w EXCEPT !.i = w.i + 1]
    ELSE LET copied == copyCallsite(data[w.i + 1])
             copiedCallsite ==
               [copied EXCEPT !.parentHash =
                  getCallsitesParentHash(copied, w.mergedCallsites)]
         IN IF copiedCallsite.totalSize <= minSizeDisplayed /\ w.i + 1 < Len(data)
              THEN [w EXCEPT !.pc = "while", !.j = w.i + 1,
                             !.copiedCallsite = copiedCallsite]
              ELSE [w EXCEPT !.i = w.i + 1,
                             !.copiedCallsite = copiedCallsite,
                             !.mergedData = Push(w.mergedData, copiedCallsite)]

\* lines 55-64 and, when the loop ends, line 66
WhileStep(data, minSizeDisplayed, w) ==
  IF w.j < Len(data) /\ w.copiedCallsite.depth = data[w.j + 1].depth
    THEN LET nextCallsite == data[w.j + 1]
         IN IF IsMergeCandidate(w.copiedCallsite, nextCallsite,
                                w.mergedCallsites, minSizeDisplayed)
              THEN [w EXCEPT !.j = w.j + 1,
                             !.copiedCallsite = AddSize(w.copiedCallsite, nextCallsite),
                             !.mergedCallsites =
                                MapSet(w.mergedCallsites, nextCallsite.hash,
                                       w.copiedCallsite.hash)]
              ELSE [w EXCEPT !.j = w.j + 1]
    ELSE [w EXCEPT !.pc = "for", !.i = w.i + 1,
                   !.mergedData = Push(w.mergedData, w.copiedCallsite)]

WalkStep(data, minSizeDisplayed, w) ==
  IF w.pc = "for" THEN ForStep(data, minSizeDisplayed, w)
                  ELSE WhileStep(data, minSizeDisplayed, w)

RECURSIVE WalkFrom(_, _, _)
WalkFrom(data, minSizeDisplayed, w) ==
  IF w.pc = "return" THEN w
  ELSE WalkFrom(data, minSizeDisplayed, WalkStep(data, minSizeDisplayed, w))

\* the walk at line 68: mergedData and the redirect map it was built with
mergeCallsitesWalk(data, minSizeDisplayed) == WalkFrom(data, minSizeDisplayed, WalkInit)

mergeCallsites(data, minSizeDisplayed) ==
  mergeCallsitesWalk(data, minSizeDisplayed).mergedData

(***************************************************************************)
(* HeapProfileFlameraphTrackController: helpers.                           *)
(***************************************************************************)
HEAP_PROFILE_FLAMEGRAPH == "HEAP_PROFILE_FLAMEGRAPH"
\* no selection object (null)
Null == 0
\* lastSelectedId and lastSelectedTs before the first selection is handled
Undefined == 0
\* private length = 0, never assigned
length == 0

Ids == 1..MaxId
Upids == 1..MaxUpid
Timestamps == 1..MaxTs
Refs == 1..MaxObjects

\* `${selectedUpid};${selectedTs}`
SelectionKey(upid, ts) == <<upid, ts>>
Keys == {SelectionKey(upid, ts) : upid \in Upids, ts \in Timestamps}

HeapProfileFlamegraph(id, upid, ts) ==
  [kind |-> HEAP_PROFILE_FLAMEGRAPH, id |-> id, upid |-> upid, ts |-> ts]

\* The rows getFlamegraphDataFromTables returns for (ts, upid): one root and
\* three callsites below it, ordered by depth, parent_hash, size desc; the
\* size of the root is the sum of the sizes below it.
getFlamegraphDataFromTables(ts, upid) ==
  << CallsiteInfo(1, RootParentHash, 0, 2 * ts + upid + 1),
     CallsiteInfo(2, 1, 1, ts + upid),
     CallsiteInfo(3, 1, 1, ts),
     CallsiteInfo(4, 1, 1, 1) >>

\* frontend/flamegraph findRootSize: the totalSize of the record of depth 0,
\* the greatest one when there are several
findRootSize(flamegraphData) ==
  LET roots == {k \in 1..Len(flamegraphData) : flamegraphData[k].depth = 0}
  IN IF roots = {} THEN 0
     ELSE LET m == CHOOSE k \in roots :
                     \A x \in roots :
                       flamegraphData[x].totalSize <= flamegraphData[k].totalSize
          IN flamegraphData[m].totalSize

\* width stands for (endSec - startSec) / resolution of the visible state.
\* totalSize is an integer, so totalSize <= rootSize / width holds exactly
\* when totalSize <= the quotient rounded down.
getMinSizeDisplayed(flamegraphData, width) ==
  (MIN_PIXEL_DISPLAYED * findRootSize(flamegraphData)) \div width

\* line 177 with a cache that never has the key
IsCachedNever(datasets, key) == FALSE

\* line 177
IsCached(datasets, key) == MapHas(datasets, key)

\* line 181 with a cache that holds the entry of one selection only
SetDatasetOnly(datasets, key, currentData) == [k \in {key} |-> currentData]

\* line 181
SetDataset(datasets, key, currentData) ==
  [k \in (DOMAIN datasets) \cup {key} |-> IF k = key THEN currentData ELSE datasets[k]]

\* lines 153-155: selection is the object run() read at line 128, as it is
\* when the callback runs; the other arguments are the constants of lines 134-137
StillSelected(selection, selectedKind, selectedId, selectedTs) ==
  /\ selection.kind = selectedKind
  /\ selection.id = selectedId
  /\ selection.ts = selectedTs

(***************************************************************************)
(* State.                                                                  *)
(***************************************************************************)
VARIABLES
  data,              \* the array handed to mergeCallsites
  minSizeDisplayed,  \* its second argument
  calls,             \* number of mergeCallsites calls made so far
  mergedData,        \* result of mergeCallsites(data, minSizeDisplayed)
  mergedCallsites,   \* the redirect map when that call returned
  remergedData,      \* result of mergeCallsites(mergedData, minSizeDisplayed)
  walk,              \* the locals of a mergeCallsites call that runs step by step
  dataBefore,        \* the array as it was when that call was made
  copiedObject,      \* the element of data copiedCallsite refers to, or Detached
  fieldReads,        \* the pairs <<i, j>> of that call: fields of data[j] were read
  heap,              \* the selection objects: reference -> HeapProfileFlamegraph
  current,           \* globals.state.currentHeapProfileFlamegraph: a reference or Null
  start,             \* this.start
  end,               \* this.end
  resolution,        \* this.resolution
  lastSelectedId,    \* this.lastSelectedId
  lastSelectedTs,    \* this.lastSelectedTs
  flamegraphDatasets,\* this.flamegraphDatasets: key -> CallsiteInfo[]
  inflight,          \* getFlamegraphData calls awaiting getFlamegraphDataFromTables
  published,         \* the TrackData handed to globals.publish, in order
  runs,              \* number of run() calls
  fetches,           \* key -> number of getFlamegraphDataFromTables calls
  audit,             \* per publication: the run() it belongs to, and whether it is stale
  lastKey            \* key of line 147 in the latest run() that reached it

walkVars == <<walk, dataBefore, copiedObject, fieldReads>>

mergeVars ==
  <<data, minSizeDisplayed, calls, mergedData, mergedCallsites, remergedData, walkVars>>

controllerVars ==
  <<heap, current, start, end, resolution, lastSelectedId, lastSelectedTs,
    flamegraphDatasets, inflight, published, runs, fetches, audit, lastKey>>

vars == <<mergeVars, controllerVars>>

\* the state of a controller on which nothing was called yet
ControllerInit ==
  /\ heap = EmptyMap
  /\ current = Null
  /\ start = 0
  /\ end = 0
  /\ resolution = 0
  /\ lastSelectedId = Undefined
  /\ lastSelectedTs = Undefined
  /\ flamegraphDatasets = EmptyMap
  /\ inflight = {}
  /\ published = << >>
  /\ runs = 0
  /\ fetches = [k \in Keys |-> 0]
  /\ audit = << >>
  /\ lastKey = SelectionKey(Undefined, Undefined)

\* no mergeCallsites call under observation
\* no mergeCallsites call runs step by step
WalkIdle ==
  /\ walk = WalkInit
  /\ dataBefore = << >>
  /\ copiedObject = Detached
  /\ fieldReads = {}

MergeIdle ==
  /\ data = << >>
  /\ minSizeDisplayed = 0
  /\ calls = 0
  /\ mergedData = << >>
  /\ mergedCallsites = EmptyMap
  /\ remergedData = << >>
  /\ WalkIdle

(***************************************************************************)
(* Spec: mergeCallsites on every valid input.                              *)
(***************************************************************************)
Init ==
  /\ data \in ValidInputs(MaxLen)
  /\ minSizeDisplayed \in 0..MaxMinSize
  /\ calls = 0
  /\ mergedData = << >>
  /\ mergedCallsites = EmptyMap
  /\ remergedData = << >>
  /\ WalkIdle
  /\ ControllerInit

Merge ==
  /\ calls = 0
  /\ LET w == mergeCallsitesWalk(data, minSizeDisplayed)
     IN /\ mergedData' = w.mergedData
        /\ mergedCallsites' = w.mergedCallsites
  /\ calls' = 1
  /\ UNCHANGED <<data, minSizeDisplayed, remergedData, walkVars, controllerVars>>

ReMerge ==
  /\ calls = 1
  /\ remergedData' = mergeCallsites(mergedData, minSizeDisplayed)
  /\ calls' = 2
  /\ UNCHANGED <<data, minSizeDisplayed, mergedData, mergedCallsites, walkVars,
                 controllerVars>>

Next == Merge \/ ReMerge

Spec == Init /\ [][Next]_vars

(***************************************************************************)
(* SpecWalk: one mergeCallsites call, step by step, on arrays in any order. *)
(***************************************************************************)
InitWalk ==
  /\ data \in AnyInputs(MaxWalkLen)
  /\ minSizeDisplayed \in 0..MaxMinSize
  /\ calls = 0
  /\ mergedData = << >>
  /\ mergedCallsites = EmptyMap
  /\ remergedData = << >>
  /\ walk = WalkInit
  /\ dataBefore = data
  /\ copiedObject = Detached
  /\ fieldReads = {}
  /\ ControllerInit

\* a write to a field of copiedCallsite is a write to the object it refers
\* to: to an element of data when the two are one object
WriteThrough(array, object, copiedCallsite) ==
  IF object = Detached THEN array
                       ELSE [array EXCEPT ![object] = copiedCallsite]

\* one pass of the for loop up to the while loop: lines 39-53 (and 66), or
\* the return of line 68
WalkFor ==
  /\ walk.pc = "for"
  /\ walk' = ForStep(data, minSizeDisplayed, walk)
  /\ copiedObject' =
       IF walk.i < Len(data) /\ ~AlreadyMerged(data[walk.i + 1], walk.mergedCallsites)
         THEN CopiedObject(walk.i)
         ELSE copiedObject
  /\ data' = WriteThrough(data, copiedObject', walk'.copiedCallsite)
  /\ IF walk'.pc = "return"
       THEN /\ calls' = 1
            /\ mergedData' = walk'.mergedData
            /\ mergedCallsites' = walk'.mergedCallsites
       ELSE UNCHANGED <<calls, mergedData, mergedCallsites>>
  /\ UNCHANGED <<minSizeDisplayed, remergedData, dataBefore, fieldReads, controllerVars>>

\* one evaluation of the while loop: lines 55-64, and line 66 when it ends
WalkWhile ==
  /\ walk.pc = "while"
  /\ walk' = WhileStep(data, minSizeDisplayed, walk)
  /\ fieldReads' = fieldReads \cup {<<walk.i, j>> : j \in ScanReads(data, walk)}
  /\ data' = WriteThrough(data, copiedObject, walk'.copiedCallsite)
  /\ UNCHANGED <<minSizeDisplayed, calls, mergedData, mergedCallsites, remergedData,
                 dataBefore, copiedObject, controllerVars>>

NextWalk == WalkFor \/ WalkWhile

SpecWalk == InitWalk /\ [][NextWalk]_vars

\* the call is not suspended: a step that can be taken is taken
SpecWalkFair == SpecWalk /\ WF_vars(NextWalk)

(***************************************************************************)
(* SpecController: the controller under selection changes, run() calls and *)
(* fetches that complete.                                                  *)
(***************************************************************************)
\* the objects a pending callback still refers to
Captured(pending) == {f.selection : f \in pending}

\* the value of globals.state.currentHeapProfileFlamegraph, as a record
ActiveSelection(h, cur) ==
  IF cur = Null THEN [id |-> Undefined, ts |-> Undefined]
                ELSE [id |-> h[cur].id, ts |-> h[cur].ts]

generateEmptyDataBounds ==
  [start |-> start, end |-> end, resolution |-> resolution, length |-> 0,
   flamegraph |-> << >>]

\* lines 115-124
generateEmptyData ==
  [start |-> -1, end |-> -1, resolution |-> resolution, length |-> 0,
   flamegraph |-> << >>]

\* lines 152-171: what the callback of line 152 publishes
ThenPublish(flamegraphData, selection, selectedKind, selectedId, selectedTs, width) ==
  IF StillSelected(selection, selectedKind, selectedId, selectedTs)
    THEN << [start |-> start, end |-> end, resolution |-> resolution,
             length |-> length,
             flamegraph |-> mergeCallsites(flamegraphData,
                              getMinSizeDisplayed(flamegraphData, width))] >>
    ELSE << >>

\* call: the run() the publication belongs to; stale: when the publication is
\* made the active selection is one with another id or ts than that run() handled
AuditEntry(call, merged, cached, selectedId, selectedTs) ==
  [call |-> call, merged |-> merged, cached |-> cached,
   stale |-> /\ current # Null
             /\ ActiveSelection(heap, current) # [id |-> selectedId, ts |-> selectedTs]]

\* globals.state gets a new selection object.  The state is replaced, never
\* written in place: an object a callback captured keeps its fields.
Select ==
  \E id \in Ids, upid \in Upids, ts \in Timestamps :
    /\ Refs \ Captured(inflight) # {}
    /\ LET ref == CHOOSE r \in Refs \ Captured(inflight) :
                    \A x \in Refs \ Captured(inflight) : r <= x
       IN /\ heap' = [r \in Captured(inflight) \cup {ref} |->
                        IF r = ref THEN HeapProfileFlamegraph(id, upid, ts) ELSE heap[r]]
          /\ current' = ref
    /\ UNCHANGED <<mergeVars, start, end, resolution, lastSelectedId, lastSelectedTs,
                   flamegraphDatasets, inflight, published, runs, fetches, audit, lastKey>>

\* globals.state.currentHeapProfileFlamegraph becomes null
Deselect ==
  /\ current # Null
  /\ current' = Null
  /\ heap' = [r \in Captured(inflight) |-> heap[r]]
  /\ UNCHANGED <<mergeVars, start, end, resolution, lastSelectedId, lastSelectedTs,
                 flamegraphDatasets, inflight, published, runs, fetches, audit, lastKey>>

\* lines 106-113
onBoundsChange ==
  \E s \in 1..MaxTime :
    /\ <<s, s + 1, 1>> # <<start, end, resolution>>
    /\ start' = s
    /\ end' = s + 1
    /\ resolution' = 1
    /\ UNCHANGED <<mergeVars, heap, current, lastSelectedId, lastSelectedTs,
                   flamegraphDatasets, inflight, published, runs, fetches, audit, lastKey>>

\* run() with no selection: the test of line 129 fails
RunNoSelection ==
  /\ runs < MaxRuns
  /\ current = Null
  /\ runs' = runs + 1
  /\ UNCHANGED <<mergeVars, heap, current, start, end, resolution, lastSelectedId,
                 lastSelectedTs, flamegraphDatasets, inflight, published, fetches,
                 audit, lastKey>>

\* run() on the selection handled last: the return of line 132
RunSameSelection ==
  /\ runs < MaxRuns
  /\ current # Null
  /\ heap[current].kind = HEAP_PROFILE_FLAMEGRAPH
  /\ lastSelectedId = heap[current].id
  /\ lastSelectedTs = heap[current].ts
  /\ runs' = runs + 1
  /\ UNCHANGED <<mergeVars, heap, current, start, end, resolution, lastSelectedId,
                 lastSelectedTs, flamegraphDatasets, inflight, published, fetches,
                 audit, lastKey>>

\* run() on a new selection, lines 134-151, with getFlamegraphData up to its
\* await; when the data is cached the callback of line 152 runs as a
\* microtask before anything else can happen and is part of the step.
RunNewSelection ==
  /\ runs < MaxRuns
  /\ current # Null
  /\ LET selection == heap[current]
         selectedId == selection.id
         selectedUpid == selection.upid
         selectedKind == selection.kind
         selectedTs == selection.ts
         key == SelectionKey(selectedUpid, selectedTs)
     IN /\ selection.kind = HEAP_PROFILE_FLAMEGRAPH
        /\ ~(lastSelectedId = selection.id /\ lastSelectedTs = selection.ts)
        /\ lastSelectedId' = selection.id
        /\ lastSelectedTs' = selection.ts
        /\ lastKey' = key
        /\ runs' = runs + 1
        /\ IF IsCached(flamegraphDatasets, key)
             THEN \E width \in 1..MaxWidth :
                    LET then == ThenPublish(flamegraphDatasets[key], selection,
                                            selectedKind, selectedId, selectedTs, width)
                    IN /\ published' = Append(published, generateEmptyData) \o then
                       /\ audit' = Append(audit,
                                     AuditEntry(runs + 1, FALSE, TRUE, selectedId, selectedTs))
                                   \o [k \in 1..Len(then) |->
                                         AuditEntry(runs + 1, TRUE, TRUE, selectedId, selectedTs)]
                       /\ UNCHANGED <<inflight, fetches>>
             ELSE /\ published' = Append(published, generateEmptyData)
                  /\ audit' = Append(audit,
                                AuditEntry(runs + 1, FALSE, FALSE, selectedId, selectedTs))
                  /\ inflight' = inflight \cup
                       {[call |-> runs + 1, key |-> key, ts |-> selection.ts,
                         upid |-> selectedUpid, selection |-> current,
                         selectedKind |-> selectedKind, selectedId |-> selectedId,
                         selectedTs |-> selectedTs]}
                  /\ fetches' = [fetches EXCEPT ![key] = fetches[key] + 1]
  /\ UNCHANGED <<mergeVars, heap, current, start, end, resolution, flamegraphDatasets>>

\* getFlamegraphDataFromTables of one pending call returns: lines 180-183,
\* then the callback of lines 152-171
FetchComplete ==
  \E f \in inflight, width \in 1..MaxWidth :
    LET currentData == getFlamegraphDataFromTables(f.ts, f.upid)
        then == ThenPublish(currentData, heap[f.selection], f.selectedKind,
                            f.selectedId, f.selectedTs, width)
    IN /\ flamegraphDatasets' = SetDataset(flamegraphDatasets, f.key, currentData)
       /\ inflight' = inflight \ {f}
       /\ published' = published \o then
       /\ audit' = audit \o [k \in 1..Len(then) |->
                               AuditEntry(f.call, TRUE, FALSE, f.selectedId, f.selectedTs)]
       /\ heap' = [r \in Captured(inflight \ {f}) \cup ({current} \ {Null}) |-> heap[r]]
       /\ UNCHANGED <<mergeVars, current, start, end, resolution, lastSelectedId,
                      lastSelectedTs, runs, fetches, lastKey>>

InitController == MergeIdle /\ ControllerInit

NextController ==
  \/ Select
  \/ Deselect
  \/ onBoundsChange
  \/ RunNoSelection
  \/ RunSameSelection
  \/ RunNewSelection
  \/ FetchComplete

SpecController == InitController /\ [][NextController]_vars

(***************************************************************************)
(* Properties of mergeCallsites (checked under Spec).                      *)
(***************************************************************************)
RECURSIVE SumSizes(_)
SumSizes(s) == IF s = << >> THEN 0 ELSE Head(s).totalSize + SumSizes(Tail(s))

Hashes(s) == {s[k].hash : k \in 1..Len(s)}
\* position of the record with the given hash
IndexOf(s, hash) == CHOOSE k \in 1..Len(s) : s[k].hash = hash
Merged == calls >= 1
Small(callsite) == callsite.totalSize <= minSizeDisplayed
\* the hash of the output node an input hash ends up in
Representative(hash) ==
  IF hash \in DOMAIN mergedCallsites THEN mergedCallsites[hash] ELSE hash
\* parentHash of an input record resolved through the redirect map
EffectiveParent(callsite) == getCallsitesParentHash(callsite, mergedCallsites)
SameGroup(a, b) == a.depth = b.depth /\ a.parentHash = b.parentHash

ThresholdOrSoleNode ==
  Merged =>
    \A a \in 1..Len(mergedData) :
      \/ mergedData[a].totalSize > minSizeDisplayed
      \/ \A b \in 1..Len(mergedData) :
           b # a => ~SameGroup(mergedData[a], mergedData[b])

\* C2 amended: no two output nodes of the same depth and parentHash both
\* have totalSize <= minSize.
ThresholdOneSmallPerGroup ==
  Merged =>
    \A a, b \in 1..Len(mergedData) :
      (a # b /\ SameGroup(mergedData[a], mergedData[b]))
        => ~(Small(mergedData[a]) /\ Small(mergedData[b]))

\* small siblings were folded and the node they became is still small and
\* has a big sibling
ThresholdWitness ==
  /\ Merged
  /\ \E a, b \in 1..Len(mergedData) :
       /\ a # b
       /\ SameGroup(mergedData[a], mergedData[b])
       /\ Small(mergedData[a])
       /\ ~Small(mergedData[b])
       /\ mergedData[a].hash \in {mergedCallsites[h] : h \in DOMAIN mergedCallsites}

\* C4: two input records end up in the same output node iff they have the
\* same depth, the same effective parent hash and both are small; a record
\* that is not small is emitted with its totalSize and nothing is folded into it.
GroupingCorrectness ==
  Merged =>
    /\ \A a, b \in 1..Len(data) :
         a # b =>
           ( Representative(data[a].hash) = Representative(data[b].hash)
             <=> /\ data[a].depth = data[b].depth
                 /\ EffectiveParent(data[a]) = EffectiveParent(data[b])
                 /\ Small(data[a])
                 /\ Small(data[b]) )
    /\ \A a \in 1..Len(data) :
         ~Small(data[a]) =>
           /\ data[a].hash \notin DOMAIN mergedCallsites
           /\ \A h \in DOMAIN mergedCallsites : mergedCallsites[h] # data[a].hash
           /\ \E k \in 1..Len(mergedData) :
                /\ mergedData[k].hash = data[a].hash
                /\ mergedData[k].totalSize = data[a].totalSize

\* two small siblings that are not adjacent were folded, a big one between
\* them was left alone
GroupingWitness ==
  /\ Merged
  /\ \E a, b, c \in 1..Len(data) :
       /\ a < b /\ b < c
       /\ mergedCallsites # EmptyMap
       /\ data[c].hash \in DOMAIN mergedCallsites
       /\ mergedCallsites[data[c].hash] = data[a].hash
       /\ data[b].depth = data[a].depth
       /\ ~Small(data[b])
       /\ EffectiveParent(data[b]) = EffectiveParent(data[a])

\* C5: when two records of depth d are folded into one representative R,
\* their small children end up in one node of depth d + 1, and every emitted
\* node carries the hash of the representative of its parent.
ConsistentAcrossDepths ==
  Merged =>
    /\ \A c, e \in 1..Len(data) :
         ( /\ c # e
           /\ data[c].depth = data[e].depth
           /\ data[c].parentHash # data[e].parentHash
           /\ Representative(data[c].parentHash) = Representative(data[e].parentHash)
           /\ Small(data[c])
           /\ Small(data[e]) )
         => Representative(data[c].hash) = Representative(data[e].hash)
    /\ \A k \in 1..Len(mergedData) :
         mergedData[k].parentHash =
           Representative(data[IndexOf(data, mergedData[k].hash)].parentHash)

\* children of two folded parents were folded although their parentHash differ
ConsistentAcrossDepthsWitness ==
  /\ Merged
  /\ \E c, e \in 1..Len(data) :
       /\ data[c].parentHash # data[e].parentHash
       /\ data[c].parentHash # RootParentHash
       /\ data[e].hash \in DOMAIN mergedCallsites
       /\ mergedCallsites[data[e].hash] = data[c].hash
       /\ data[e].parentHash \in DOMAIN mergedCallsites
       /\ mergedCallsites[data[e].parentHash] = data[c].parentHash

\* C6: merging the merged output again with the same minSize returns an
\* equal sequence.
IdempotentReMerge == calls = 2 => remergedData = mergedData

\* the first merge folded records, into a node that is still small, and the
\* second merge was made
IdempotentReMergeWitness ==
  /\ calls = 2
  /\ Len(mergedData) < Len(data)
  /\ \E k \in 1..Len(mergedData) :
       /\ Small(mergedData[k])
       /\ mergedData[k].hash \in {mergedCallsites[h] : h \in DOMAIN mergedCallsites}
  /\ remergedData = mergedData

\* C9: the hashes of the output are a subsequence of the hashes of the
\* input, and a record is absent exactly when it was redirected into an
\* earlier record.
OrderPreservation ==
  Merged =>
    /\ \A k \in 1..Len(mergedData) : mergedData[k].hash \in Hashes(data)
    /\ \A a, b \in 1..Len(mergedData) :
         a < b => IndexOf(data, mergedData[a].hash) < IndexOf(data, mergedData[b].hash)
    /\ \A k \in 1..Len(data) :
         data[k].hash \notin Hashes(mergedData)
           <=> data[k].hash \in DOMAIN mergedCallsites
    /\ \A h \in DOMAIN mergedCallsites :
         /\ mergedCallsites[h] \in Hashes(data)
         /\ IndexOf(data, mergedCallsites[h]) < IndexOf(data, h)

\* a record in the middle was folded away and records after it survived
OrderPreservationWitness ==
  /\ Merged
  /\ \E a, b, c \in 1..Len(data) :
       /\ a < b /\ b < c
       /\ data[b].hash \in DOMAIN mergedCallsites
       /\ data[a].hash \in Hashes(mergedData)
       /\ data[c].hash \in Hashes(mergedData)

\* C10: every output node has the hash, depth and name of the input record
\* it was copied from, and only records of the same depth are folded together.
DepthPreservation ==
  Merged =>
    /\ \A k \in 1..Len(mergedData) :
         \E x \in 1..Len(data) :
           /\ data[x].hash = mergedData[k].hash
           /\ data[x].depth = mergedData[k].depth
           /\ data[x].name = mergedData[k].name
    /\ \A h \in DOMAIN mergedCallsites :
         data[IndexOf(data, h)].depth = data[IndexOf(data, mergedCallsites[h])].depth

\* records of depth 1 were folded while the array holds other depths too
DepthPreservationWitness ==
  /\ Merged
  /\ \E h \in DOMAIN mergedCallsites : data[IndexOf(data, h)].depth = 1
  /\ \E k \in 1..Len(mergedData) : mergedData[k].depth = 0

\* the input is ordered by depth, then parentHash, then totalSize descending
SortedInput ==
  \A k \in 1..(Len(data) - 1) :
    \/ data[k].depth < data[k + 1].depth
    \/ /\ data[k].depth = data[k + 1].depth
       /\ \/ data[k].parentHash < data[k + 1].parentHash
          \/ /\ data[k].parentHash = data[k + 1].parentHash
             /\ data[k].totalSize >= data[k + 1].totalSize

SmallGroupOf(x) ==
  {k \in 1..Len(data) :
     /\ data[k].depth = x.depth
     /\ EffectiveParent(data[k]) = EffectiveParent(x)
     /\ Small(data[k])}

RECURSIVE SumOver(_)
SumOver(indices) ==
  IF indices = {} THEN 0
  ELSE LET k == CHOOSE x \in indices : TRUE
       IN data[k].totalSize + SumOver(indices \ {k})

ChildrenSize(s, hash) ==
  SumSizes(SelectSeq(s, LAMBDA r : r.parentHash = hash))

\* totalSize is cumulative in the input: the children of a record do not
\* outweigh it
CumulativeInput ==
  \A k \in 1..Len(data) : ChildrenSize(data, data[k].hash) <= data[k].totalSize

\* C19: when totalSize is cumulative in the input, the output nodes whose
\* parentHash is h do not outweigh the output node with hash h.
HierarchySurvives ==
  (Merged /\ CumulativeInput) =>
    \A k \in 1..Len(mergedData) :
      ChildrenSize(mergedData, mergedData[k].hash) <= mergedData[k].totalSize

\* two parents were folded and the children of both hang under the one node
HierarchySurvivesWitness ==
  /\ Merged
  /\ CumulativeInput
  /\ \E c, e \in 1..Len(data) :
       /\ data[c].parentHash # data[e].parentHash
       /\ data[e].parentHash \in DOMAIN mergedCallsites
       /\ mergedCallsites[data[e].parentHash] = data[c].parentHash
       /\ \E k \in 1..Len(mergedData) :
            /\ mergedData[k].hash = data[c].parentHash
            /\ ChildrenSize(mergedData, mergedData[k].hash)
                 = data[c].totalSize + data[e].totalSize

(***************************************************************************)
(* Properties of the mergeCallsites walk (checked under SpecWalk).         *)
(***************************************************************************)
Returned == walk.pc = "return"

\* the array the call was made with meets the ordering precondition
ValidInput ==
  \A k \in 1..Len(dataBefore) :
    /\ k = 1 => dataBefore[k].depth = 0
    /\ k > 1 => dataBefore[k - 1].depth <= dataBefore[k].depth
    /\ dataBefore[k].depth = 0 => dataBefore[k].parentHash = RootParentHash
    /\ dataBefore[k].depth > 0 =>
         \E p \in 1..(k - 1) :
           /\ dataBefore[p].hash = dataBefore[k].parentHash
           /\ dataBefore[p].depth = dataBefore[k].depth - 1

\* C11: mergeCallsites leaves the input array and every record of it
\* unchanged, at every point of the call and after it.
InputUnchanged == data = dataBefore

\* the call returned after adding sizes to one copy and rewriting the
\* parentHash of another
InputUnchangedWitness ==
  /\ Returned
  /\ data = dataBefore
  /\ \E k \in 1..Len(mergedData) :
       mergedData[k].totalSize # data[IndexOf(data, mergedData[k].hash)].totalSize
  /\ \E k \in 1..Len(mergedData) :
       mergedData[k].parentHash # data[IndexOf(data, mergedData[k].hash)].parentHash

\* the parentHash of the record is the hash of no record of the array
Dangling(callsite) == callsite.parentHash \notin Hashes(data)

\* C12 as stated: a record with a dangling parentHash (not the root sentinel)
\* is in the output as it is in the input.
DanglingRetainedAsIs ==
  Returned =>
    \A k \in 1..Len(data) :
      (Dangling(data[k]) /\ data[k].parentHash # RootParentHash)
        => \E m \in 1..Len(mergedData) : mergedData[m] = data[k]

\* C12 amended: a record with a dangling parentHash keeps its literal
\* parentHash; it is emitted with its own totalSize when that is above
\* minSize, and a small one is emitted with at least its own totalSize or
\* folded into a small record of the same depth and parentHash.
DanglingKeepsParentHash ==
  Returned =>
    \A k \in 1..Len(data) :
      Dangling(data[k]) =>
        \/ \E m \in 1..Len(mergedData) :
             /\ mergedData[m].hash = data[k].hash
             /\ mergedData[m].parentHash = data[k].parentHash
             /\ mergedData[m].depth = data[k].depth
             /\ IF Small(data[k])
                  THEN mergedData[m].totalSize >= data[k].totalSize
                  ELSE mergedData[m].totalSize = data[k].totalSize
        \/ /\ Small(data[k])
           /\ data[k].hash \in DOMAIN mergedCallsites
           /\ LET r == data[IndexOf(data, mergedCallsites[data[k].hash])]
              IN /\ r.parentHash = data[k].parentHash
                 /\ r.depth = data[k].depth
                 /\ Small(r)

\* a big record with a dangling parentHash was emitted unchanged and a small
\* one was folded into another
DanglingKeepsParentHashWitness ==
  /\ Returned
  /\ \E k, m \in 1..Len(data) :
       /\ data[k].parentHash = DanglingHash
       /\ data[m].parentHash = DanglingHash
       /\ ~Small(data[k])
       /\ data[m].hash \in DOMAIN mergedCallsites

\* C13: on every array, sorted or not, the call returns, every candidate
\* whose fields are read has an index j with i < j < data.length, and the
\* empty array gives the empty output.
BoundedScanAndTermination ==
  /\ [](\A r \in fieldReads : r[1] < r[2] /\ r[2] < Len(data))
  /\ <>Returned
  /\ []((Returned /\ dataBefore = << >>) => mergedData = << >>)

\* the call returned after a small record scanned up to the last element
BoundedScanAndTerminationWitness ==
  /\ Returned
  /\ Len(data) = MaxWalkLen
  /\ \E r \in fieldReads : r[2] = Len(data) - 1
  /\ Small(data[Len(data)])
  /\ data[Len(data)].hash \in Hashes(mergedData)

\* the array breaks the ordering precondition, each parentHash being the
\* root sentinel or the hash of another record
MalformedInput ==
  /\ ~ValidInput
  /\ \A k \in 1..Len(dataBefore) :
       /\ \/ dataBefore[k].parentHash = RootParentHash
          \/ dataBefore[k].parentHash \in Hashes(dataBefore)

\* C15: on an array that breaks the ordering precondition every totalSize is
\* counted once: no record is emitted and folded, and the sums are equal.
ConservationMalformed ==
  (Returned /\ MalformedInput) =>
    /\ SumSizes(mergedData) = SumSizes(dataBefore)
    /\ \A k \in 1..Len(data) :
         ~(data[k].hash \in Hashes(mergedData) /\ data[k].hash \in DOMAIN mergedCallsites)

\* C18: on a valid input, at every point of the walk each value of the
\* redirect map is the hash of a representative that is emitted or being
\* built and is no key of the map; when the call returns, the parentHash of
\* every output node is the root sentinel or the hash of an output node one
\* level up, and no key of the map.
ParentClosure ==
  ValidInput =>
    /\ \A h \in DOMAIN walk.mergedCallsites :
         /\ walk.mergedCallsites[h] \notin DOMAIN walk.mergedCallsites
         /\ \/ walk.mergedCallsites[h] \in Hashes(walk.mergedData)
            \/ /\ walk.pc = "while"
               /\ walk.mergedCallsites[h] = walk.copiedCallsite.hash
    /\ Returned =>
         \A k \in 1..Len(mergedData) :
           /\ mergedData[k].parentHash \notin DOMAIN mergedCallsites
           /\ \/ mergedData[k].parentHash = RootParentHash
              \/ \E m \in 1..Len(mergedData) :
                   /\ mergedData[m].hash = mergedData[k].parentHash
                   /\ mergedData[m].depth = mergedData[k].depth - 1

\* the call returned on a valid input in which a parent was folded and its
\* child was emitted under the representative
ParentClosureWitness ==
  /\ ValidInput
  /\ Returned
  /\ \E k \in 1..Len(mergedData) :
       /\ mergedData[k].parentHash # RootParentHash
       /\ data[IndexOf(data, mergedData[k].hash)].parentHash \in DOMAIN mergedCallsites

(***************************************************************************)
(* Properties of the controller (checked under SpecController).            *)
(***************************************************************************)
ActiveKey == SelectionKey(heap[current].upid, heap[current].ts)

\* C3: a fetch that completes after the active selection changed publishes
\* nothing: every merged TrackData is published while the selection its
\* run() handled is still the active one.
StaleResultDiscarded ==
  \A k \in 1..Len(audit) : audit[k].merged => ~audit[k].stale

\* C7 as stated: getFlamegraphDataFromTables is invoked at most once per key.
FetchedAtMostOncePerKey == \A key \in Keys : fetches[key] <= 1

\* C7 amended: a request for a key whose data is in the cache starts no
\* fetch: no step raises the number of fetches of a cached key.
NoFetchOnceCached ==
  [][\A key \in DOMAIN flamegraphDatasets : fetches'[key] = fetches[key]]_vars

\* a second run() asked for a key that was fetched once and was served from
\* the cache
NoFetchOnceCachedWitness ==
  /\ lastKey \in DOMAIN flamegraphDatasets
  /\ fetches[lastKey] = 1
  /\ inflight = {}
  /\ \E k \in 1..Len(audit) :
       audit[k].merged /\ audit[k].cached /\ audit[k].call >= 2

\* C8 as stated: when run() handles a selection with another key than the one
\* it handled before, the cache no longer holds the entry of the earlier key.
CacheDiscardedOnSelectionChange ==
  [][lastKey' # lastKey => ~MapHas(flamegraphDatasets', lastKey)]_vars

\* C8 amended: the cache entry of a key is kept when the selection changes;
\* no step removes a key from flamegraphDatasets.
CacheEntryKept ==
  [][\A key \in DOMAIN flamegraphDatasets : MapHas(flamegraphDatasets', key)]_vars

\* the data of an earlier selection was published while that selection was
\* active, run() has handled a selection with another key since, and the
\* cache holds the earlier key
CacheEntryKeptWitness ==
  /\ current # Null
  /\ ActiveKey = lastKey
  /\ lastSelectedId = heap[current].id
  /\ lastSelectedTs = heap[current].ts
  /\ \E key \in DOMAIN flamegraphDatasets : key # lastKey
  /\ \E a, b \in 1..Len(audit) :
       /\ audit[a].merged
       /\ ~audit[a].stale
       /\ audit[a].call < audit[b].call

\* the TrackData is the empty one of the loading state
IsEmptyData(trackData) ==
  /\ trackData.start = -1
  /\ trackData.end = -1
  /\ trackData.flamegraph = << >>

\* C16: a run() on a selection whose id or ts differs from the last handled
\* one publishes the empty TrackData in the same step, before any merged
\* flamegraph of that run(), cached data or not; a run() on the selection
\* handled last publishes nothing and starts no fetch.
LoadingStateOrdering ==
  [][/\ (/\ runs' = runs + 1
         /\ current # Null
         /\ ~(lastSelectedId = heap[current].id /\ lastSelectedTs = heap[current].ts))
        => /\ Len(published') > Len(published)
           /\ IsEmptyData(published'[Len(published) + 1])
           /\ audit'[Len(published) + 1].call = runs'
           /\ \A k \in (Len(published) + 2)..Len(published') :
                audit'[k].call = runs' /\ audit'[k].merged
     /\ (/\ runs' = runs + 1
         /\ current # Null
         /\ lastSelectedId = heap[current].id
         /\ lastSelectedTs = heap[current].ts)
        => /\ published' = published
           /\ inflight' = inflight
           /\ fetches' = fetches
     /\ \A k \in (Len(published) + 1)..Len(published') :
          audit'[k].merged =>
            \E m \in 1..(k - 1) :
              /\ audit'[m].call = audit'[k].call
              /\ ~audit'[m].merged
              /\ IsEmptyData(published'[m])
    ]_vars

\* one run() published the empty data and then the merged flamegraph of
\* cached data, another one published its merged flamegraph after a fetch
LoadingStateOrderingWitness ==
  /\ \E k \in 2..Len(published) :
       /\ audit[k].merged
       /\ audit[k].cached
       /\ audit[k - 1].call = audit[k].call
       /\ IsEmptyData(published[k - 1])
       /\ ~IsEmptyData(published[k])
  /\ \E k \in 2..Len(published) :
       /\ audit[k].merged
       /\ ~audit[k].cached
       /\ \E m \in 1..(k - 1) :
            audit[m].call = audit[k].call /\ IsEmptyData(published[m])
  /\ runs > Cardinality({audit[k].call : k \in 1..Len(audit)})

====
